---- MODULE Spec2Model ----
(***************************************************************************)
(* A model of the CUE-sheet parser (package cue): the line tokenizer       *)
(* parseCommand, the time-code parser parseTime, the command table and its *)
(* thirteen handlers, and the driver Parse with its position pass.         *)
(*                                                                         *)
(* Text is modelled by TLA+ strings over printable ASCII plus tab; a       *)
(* character is a string of length one.  A float64 number of seconds is    *)
(* modelled exactly, as an integer count of 1/75 s (frames): every value   *)
(* the program computes is a sum of integers and of frames/75.             *)
(***************************************************************************)
EXTENDS Integers, Sequences, FiniteSets, TLC

(***************************************************************************)
(* Strings and characters.                                                 *)
(***************************************************************************)

\* s[i] of Go, 1-based here.
Char(s, i) == SubSeq(s, i, i)

\* The printable ASCII characters in code order: 0x20 .. 0x5F and 0x61 .. 0x7E
\* (the grave accent 0x60 cannot be written in a string here and is left out).
AsciiLow == " !\"#$%&'(" \o ")*+,-./0123456789:;<=>?@ABCDEFGHIJKLMNOPQRSTUVWXYZ[\\]^_"

AsciiHigh == "abcdefghijklmnopqrstuvwxyz{|}~"

\* The code of a character.
Ord(c) ==
    IF c = "\t" THEN 9
    ELSE IF c = "\n" THEN 10
    ELSE IF c = "\f" THEN 12
    ELSE IF c = "\r" THEN 13
    ELSE IF \E i \in 1..Len(AsciiLow) : Char(AsciiLow, i) = c
         THEN 31 + (CHOOSE i \in 1..Len(AsciiLow) : Char(AsciiLow, i) = c)
         ELSE 96 + (CHOOSE i \in 1..Len(AsciiHigh) : Char(AsciiHigh, i) = c)

\* unicode.IsSpace on the characters of the alphabet.
IsSpace(c) == c \in {" ", "\t", "\n", "\r", "\f"}

IsDigit(c) == Ord(c) >= 48 /\ Ord(c) <= 57

\* strings.TrimSpace: drop leading and trailing white space.
RECURSIVE TrimLeft(_)
TrimLeft(s) ==
    IF Len(s) > 0 /\ IsSpace(Char(s, 1)) THEN TrimLeft(SubSeq(s, 2, Len(s))) ELSE s

RECURSIVE TrimRight(_)
TrimRight(s) ==
    IF Len(s) > 0 /\ IsSpace(Char(s, Len(s))) THEN TrimRight(SubSeq(s, 1, Len(s) - 1)) ELSE s

TrimSpace(s) == TrimRight(TrimLeft(s))

\* An index of the first blank, which takes a tab for a letter.
IndexBlank(s) ==
    IF \E i \in 1..Len(s) : Char(s, i) = " "
    THEN (CHOOSE i \in 1..Len(s) :
             /\ Char(s, i) = " "
             /\ \A j \in 1..(i - 1) : Char(s, j) # " ") - 1
    ELSE -1

\* strings.IndexFunc(s, unicode.IsSpace), 0-based as in Go; -1 when none.
IndexSpace(s) ==
    IF \E i \in 1..Len(s) : IsSpace(Char(s, i))
    THEN (CHOOSE i \in 1..Len(s) :
             /\ IsSpace(Char(s, i))
             /\ \A j \in 1..(i - 1) : ~IsSpace(Char(s, j))) - 1
    ELSE -1

\* strings.Split(s, sep) for a one-character separator.
RECURSIVE SplitFrom(_, _, _, _)
SplitFrom(s, sep, i, cur) ==
    IF i > Len(s) THEN <<cur>>
    ELSE IF Char(s, i) = sep THEN <<cur>> \o SplitFrom(s, sep, i + 1, "")
    ELSE SplitFrom(s, sep, i + 1, cur \o Char(s, i))

Split(s, sep) == SplitFrom(s, sep, 1, "")

\* strings.Join(parts, sep).
RECURSIVE Join(_, _)
Join(parts, sep) ==
    IF Len(parts) = 0 THEN ""
    ELSE IF Len(parts) = 1 THEN parts[1]
    ELSE parts[1] \o sep \o Join(Tail(parts), sep)

\* The %d verb of fmt: a decimal numeral.
RECURSIVE Itoa(_)
Itoa(n) ==
    IF n < 0 THEN "-" \o Itoa(0 - n)
    ELSE IF n < 10 THEN Char("0123456789", n + 1)
    ELSE Itoa(n \div 10) \o Char("0123456789", (n % 10) + 1)

\* The error value nil; no error message of the program is this text.
NoError == "<nil>"

\* The value of a run of decimal digits.
RECURSIVE DigitsValue(_, _)
DigitsValue(s, acc) ==
    IF Len(s) = 0 THEN acc
    ELSE DigitsValue(SubSeq(s, 2, Len(s)), acc * 10 + (Ord(Char(s, 1)) - 48))

\* strconv.Quote on one character of the alphabet: the double quote, the
\* backslash and the control characters are written as escapes.
quoteChar(c) ==
    IF c = "\"" THEN "\\\""
    ELSE IF c = "\\" THEN "\\\\"
    ELSE IF c = "\t" THEN "\\t"
    ELSE IF c = "\n" THEN "\\n"
    ELSE IF c = "\r" THEN "\\r"
    ELSE IF c = "\f" THEN "\\f"
    ELSE c

\* The characters of s from position i on, each as strconv.Quote writes it.
RECURSIVE quoteFrom(_, _)
quoteFrom(s, i) ==
    IF i > Len(s) THEN "" ELSE quoteChar(Char(s, i)) \o quoteFrom(s, i + 1)

\* strconv.Quote: s as a Go string literal in double quotes, the form in
\* which the error of strconv.Atoi shows its input.
Quote(s) == "\"" \o quoteFrom(s, 1) \o "\""

\* The digits at the head of s, up to its first character that is none.
leadingDigits(s) ==
    IF \A i \in 1..Len(s) : IsDigit(Char(s, i)) THEN s
    ELSE SubSeq(s, 1, (CHOOSE i \in 1..Len(s) :
                          /\ ~IsDigit(Char(s, i))
                          /\ \A j \in 1..(i - 1) : IsDigit(Char(s, j))) - 1)

\* A run of digits without the zeros at its head.
RECURSIVE trimZeros(_)
trimZeros(s) ==
    IF Len(s) > 0 /\ Char(s, 1) = "0" THEN trimZeros(SubSeq(s, 2, Len(s))) ELSE s

\* The number that the run of digits a (no zero at its head) stands for is
\* greater than that of the run b: a is longer, or as long and greater at
\* the first digit where they differ.
greaterDigits(a, b) ==
    \/ Len(a) > Len(b)
    \/ /\ Len(a) = Len(b)
       /\ \E i \in 1..Len(a) :
             /\ SubSeq(a, 1, i - 1) = SubSeq(b, 1, i - 1)
             /\ Ord(Char(a, i)) > Ord(Char(b, i))

\* The limits of strconv: the greatest uint64, the greatest int64 and the
\* magnitude of the least int64, as runs of digits (they are beyond the
\* numbers TLC computes with).
MaxUint64Digits == "18446744073709551615"

MaxInt64Digits == "9223372036854775807"

MinInt64Digits == "9223372036854775808"

\* The error of strconv for s with the reason why.
numError(s, why) == "strconv.Atoi: parsing " \o Quote(s) \o ": " \o why

\* What strconv.Atoi returns for a value out of range: the nearest int64,
\* written here as a numeral, and the range error.  No caller reads the
\* value when there is an error.
rangeError(s) ==
    [val |-> IF Char(s, 1) = "-" THEN "-" \o MinInt64Digits ELSE MaxInt64Digits,
     err |-> numError(s, "value out of range")]

\* strconv.Atoi on s, whose part after the sign is digits.  ParseUint reads
\* digits from the left and stops at the first that is no digit (a syntax
\* error) or that takes the number beyond uint64 (a range error), whichever
\* comes first; a number it accepts that is beyond int64 is a range error
\* of ParseInt.
atoiDigits(s, digits) ==
    IF Len(digits) = 0
    THEN [val |-> 0, err |-> numError(s, "invalid syntax")]
    ELSE IF greaterDigits(trimZeros(leadingDigits(digits)), MaxUint64Digits)
    THEN rangeError(s)
    ELSE IF Len(leadingDigits(digits)) < Len(digits)
    THEN [val |-> 0, err |-> numError(s, "invalid syntax")]
    ELSE IF greaterDigits(trimZeros(digits),
                          IF Char(s, 1) = "-" THEN MinInt64Digits ELSE MaxInt64Digits)
    THEN rangeError(s)
    ELSE [val |-> IF Char(s, 1) = "-" THEN 0 - DigitsValue(digits, 0)
                  ELSE DigitsValue(digits, 0),
          err |-> NoError]

\* strconv.Atoi: an optional sign and then one or more decimal digits.
\* (A numeral within int64 has its value as an integer; TLC computes it up
\* to 2^31 - 1.)
Atoi(s) == atoiDigits(s, IF Len(s) > 0 /\ Char(s, 1) \in {"+", "-"}
                           THEN SubSeq(s, 2, Len(s)) ELSE s)

(***************************************************************************)
(* The tokenizer and the time-code parser.                                 *)
(***************************************************************************)

\* A test of quotation characters that knows the apostrophe only.
isQuoteCharApostrophe(char) == char = "'"

\* isQuoteChar: the two quotation characters.
isQuoteChar(char) == char = "'" \/ char = "\""

\* An escape table without entries: no sequence is resolved.
parseEscapeSequenceEmpty(seq) ==
    [char |-> "", err |-> "usupported escape sequence '" \o seq \o "'"]

\* An escape table that resolves every sequence to its second character.
parseEscapeSequenceAny(seq) == [char |-> SubSeq(seq, 2, 2), err |-> NoError]

\* parseEscapeSequence: the character a two-character escape stands for.
parseEscapeSequence(seq) ==
    IF seq = "\\\"" THEN [char |-> "\"", err |-> NoError]
    ELSE IF seq = "\\'" THEN [char |-> "'", err |-> NoError]
    ELSE IF seq = "\\\\" THEN [char |-> "\\", err |-> NoError]
    ELSE IF seq = "\\n" THEN [char |-> "\n", err |-> NoError]
    ELSE IF seq = "\\t" THEN [char |-> "\t", err |-> NoError]
    ELSE [char |-> "", err |-> "usupported escape sequence '" \o seq \o "'"]

\* The characters the parameter loop only writes to the parameter in
\* progress: outside quote mode all but quotes, white space and the
\* backslash, in quote mode all but the closing quote and the backslash.
isOrdinaryChar(c, quotedChar) ==
    IF quotedChar = ""
    THEN ~isQuoteChar(c) /\ ~IsSpace(c) /\ c # "\\"
    ELSE c # quotedChar /\ c # "\\"

\* The position before the first of the positions stops, last when there
\* is none.
runEndBefore(stops, last) ==
    IF stops = {} THEN last ELSE (CHOOSE h \in stops : \A k \in stops : h <= k) - 1

\* The last position of the run of such characters that starts at i: the
\* turns of the loop over the run write it to the parameter one by one.
ordinaryRunEnd(line, i, quotedChar) ==
    runEndBefore({ h \in i..Len(line) : ~isOrdinaryChar(Char(line, h), quotedChar) },
                 Len(line))

\* The parameter loop of parseCommand from position i (1-based) of line:
\* quotedChar is "" outside quote mode, param the parameter in progress.
RECURSIVE splitParams(_, _, _, _, _)
splitParams(line, i, quotedChar, param, params) ==
    IF i > Len(line) THEN [params |-> Append(params, param), err |-> NoError]
    ELSE
    LET c   == Char(line, i)
        esc == parseEscapeSequence(SubSeq(line, i, i + 1))
        j   == ordinaryRunEnd(line, i, quotedChar)
    IN  IF quotedChar = ""
        THEN IF isQuoteChar(c)
             THEN IF Len(param) # 0
                  THEN [params |-> params, err |-> "unexpected quotation character"]
                  ELSE splitParams(line, i + 1, c, param, params)
             ELSE IF IsSpace(c)
             THEN IF Len(param) # 0
                  THEN splitParams(line, i + 1, quotedChar, "", Append(params, param))
                  ELSE splitParams(line, i + 1, quotedChar, param, params)
             ELSE IF c = "\\"
             THEN IF i + 1 > Len(line)
                  THEN [params |-> params, err |-> "unfinished escape sequence"]
                  ELSE IF esc.err # NoError
                  THEN splitParams(line, i + 1, quotedChar, param \o c, params)
                  ELSE splitParams(line, i + 2, quotedChar, param \o esc.char, params)
             ELSE splitParams(line, j + 1, quotedChar, param \o SubSeq(line, i, j), params)
        ELSE IF c = quotedChar
             THEN splitParams(line, i + 1, "", param, params)
             ELSE IF c = "\\"
             THEN IF i + 1 > Len(line)
                  THEN [params |-> params, err |-> "unfinished escape sequence"]
                  ELSE IF esc.err # NoError
                  THEN splitParams(line, i + 1, quotedChar, param \o c, params)
                  ELSE splitParams(line, i + 2, quotedChar, param \o esc.char, params)
             ELSE splitParams(line, j + 1, quotedChar, param \o SubSeq(line, i, j), params)

\* parseCommand once the line is trimmed and the first white space found
\* at i (0-based, -1 for none).
commandAndParams(line, i) ==
    IF i < 0
    THEN [cmd |-> line, params |-> <<>>, err |-> NoError]
    ELSE [cmd |-> SubSeq(line, 1, i)]
         @@ splitParams(TrimSpace(SubSeq(line, i + 1, Len(line))), 1, "", "", <<>>)

\* parseCommand once the line is trimmed.
commandOfTrimmed(line) == commandAndParams(line, IndexSpace(line))

\* parseCommand: the command name, the parameters and the error of one line.
parseCommand(line) == commandOfTrimmed(TrimSpace(line))

\* framesPerSecond.
framesPerSecond == 75

\* A parseTime without the two range tests.
timeOfFieldsUnchecked(m, s, f) ==
    [min |-> m.val, sec |-> s.val, frames |-> f.val,
     err |-> IF m.err # NoError THEN m.err
             ELSE IF s.err # NoError THEN s.err ELSE f.err]

\* parseTime once the three fields are converted.
timeOfFields(m, s, f) ==
    IF m.err # NoError
    THEN [min |-> m.val, sec |-> 0, frames |-> 0,
          err |-> "failed to parse minutes: " \o m.err]
    ELSE IF s.err # NoError
    THEN [min |-> m.val, sec |-> s.val, frames |-> 0,
          err |-> "failed to parse seconds: " \o s.err]
    ELSE IF s.val > 59
    THEN [min |-> m.val, sec |-> s.val, frames |-> 0,
          err |-> "failed to parse seconds, seconds value can't be more than 59"]
    ELSE IF f.err # NoError
    THEN [min |-> m.val, sec |-> s.val, frames |-> f.val,
          err |-> "failed to parse frames value: " \o f.err]
    ELSE IF f.val > framesPerSecond - 1
    THEN [min |-> m.val, sec |-> s.val, frames |-> f.val,
          err |-> "failed to parse frames, frames value can't be more than "
                  \o Itoa(framesPerSecond - 1)]
    ELSE [min |-> m.val, sec |-> s.val, frames |-> f.val, err |-> NoError]

\* parseTime once the text is split at the colons.
timeOfParts(parts) ==
    IF Len(parts) # 3
    THEN [min |-> 0, sec |-> 0, frames |-> 0,
          err |-> "illegal time format, mm:ss:ff should be"]
    ELSE timeOfFields(Atoi(parts[1]), Atoi(parts[2]), Atoi(parts[3]))

\* parseTime: the fields of mm:ss:ff.  On an error the fields are those
\* assigned before the failing check.
parseTime(length) == timeOfParts(Split(length, ":"))

(***************************************************************************)
(* The sheet: values of the types Sheet, File, Track, Index and Time.      *)
(* A slice is a sequence; a pointer to the current file or track is its    *)
(* position in its slice, and 0 is the nil pointer.                        *)
(***************************************************************************)

\* The zero value of Time.
ZeroTime == [Min |-> 0, Sec |-> 0, Frames |-> 0]

\* Time{min, sec, frames}.
Time(min, sec, frames) == [Min |-> min, Sec |-> sec, Frames |-> frames]

\* Time.Seconds, in units of 1/framesPerSecond second.
Seconds(time) == (time.Min * 60) * framesPerSecond + time.Sec * framesPerSecond + time.Frames

\* new(Sheet).
NewSheet ==
    [Catalog |-> "", Performer |-> "", Title |-> "", Songwriter |-> "",
     Comments |-> <<>>, CdTextFile |-> "", Files |-> <<>>]

\* A new file that comes with a track of its own.
NewFileWithTrack(name, fileType) ==
    [Name |-> name, Type |-> fileType, Duration |-> 0,
     Tracks |-> << [Number |-> 1, DataType |-> 6, Title |-> "", Performer |-> "",
                    Songwriter |-> "", Flags |-> <<>>, Isrc |-> "", Indexes |-> <<>>,
                    Pregap |-> [Min |-> 0, Sec |-> 0, Frames |-> 0],
                    Postgap |-> [Min |-> 0, Sec |-> 0, Frames |-> 0],
                    StartPosition |-> 0, EndPosition |-> 0] >>]

\* *new(File) with its name and type set.
NewFile(name, fileType) ==
    [Name |-> name, Type |-> fileType, Tracks |-> <<>>, Duration |-> 0]

\* new(Track) with its number and data type set.
NewTrack(number, dataType) ==
    [Number |-> number, DataType |-> dataType, Title |-> "", Performer |-> "",
     Songwriter |-> "", Flags |-> <<>>, Isrc |-> "", Indexes |-> <<>>,
     Pregap |-> ZeroTime, Postgap |-> ZeroTime, StartPosition |-> 0, EndPosition |-> 0]

\* The file types and their values (iota counts from the head of the block).
fileTypes ==
    ("BINARY" :> 1) @@ ("MOTOROLA" :> 2) @@ ("AIFF" :> 3) @@ ("WAVE" :> 4) @@ ("MP3" :> 5)

\* The track data types and their values.
dataTypes ==
    ("AUDIO" :> 6) @@ ("CDG" :> 7) @@ ("MODE1/2048" :> 8) @@ ("MODE1/2352" :> 9)
    @@ ("MODE2/2336" :> 10) @@ ("MODE2/2352" :> 11) @@ ("CDI/2336" :> 12)
    @@ ("CDI/2352" :> 13)

\* The track flags and their values.
trackFlags ==
    ("DCP" :> 14) @@ ("4CH" :> 15) @@ ("PRE" :> 16) @@ ("SCMS" :> 17)

\* getCurrentFile: the position of the last file, 0 when there is none.
getCurrentFile(sheet) == IF Len(sheet.Files) > 0 THEN Len(sheet.Files) ELSE 0

\* getCurrentTrack: the position, in the last file, of its last track; 0 when
\* there is no file or the last file has no track.
getCurrentTrack(sheet) ==
    LET file == getCurrentFile(sheet)
    IN  IF file # 0 /\ Len(sheet.Files[file].Tracks) > 0
        THEN Len(sheet.Files[file].Tracks)
        ELSE 0

\* The track a non-nil getCurrentTrack points to.
TrackAt(sheet, t) == sheet.Files[Len(sheet.Files)].Tracks[t]

\* A write through the pointer getCurrentTrack returned.
\* A write through a pointer to the first track of the last file.
SetTrackFirst(sheet, t, track) == [sheet EXCEPT !.Files[Len(sheet.Files)].Tracks[1] = track]

SetTrack(sheet, t, track) == [sheet EXCEPT !.Files[Len(sheet.Files)].Tracks[t] = track]

\* Track.StartTime: the time of the track's first index, the zero time
\* when the track has no index.
StartTime(track) == IF Len(track.Indexes) > 0 THEN track.Indexes[1].Time ELSE ZeroTime

\* A truncation that keeps the last n characters of s.
stringTruncateTail(s, n) == IF Len(s) > n THEN SubSeq(s, Len(s) - n + 1, Len(s)) ELSE s

\* stringTruncate: the first n characters of s, s itself when it is no longer.
stringTruncate(s, n) == IF Len(s) > n THEN SubSeq(s, 1, n) ELSE s

\* The class [0-9a-zA-z] of the ISRC pattern: the range A-z runs from code
\* 65 to code 122.
IsrcPrefixChar(c) ==
    IsDigit(c) \/ (Ord(c) >= 97 /\ Ord(c) <= 122) \/ (Ord(c) >= 65 /\ Ord(c) <= 122)

\* A match of the places from..to of s against [0-9] repeated.
AllDigits(s, from, to) == \A i \in from..to : IsDigit(Char(s, i))

\* A match of the places from..to of s against [0-9a-zA-z] repeated.
AllIsrcPrefix(s, from, to) == \A i \in from..to : IsrcPrefixChar(Char(s, i))

(***************************************************************************)
(* The command handlers.  Each takes the parameters and the sheet and      *)
(* gives the sheet as the handler leaves it and the error it returns.      *)
(***************************************************************************)

Ok(sheet) == [sheet |-> sheet, err |-> NoError]

Fail(sheet, err) == [sheet |-> sheet, err |-> err]

\* The %s verb of fmt applied to a slice of strings.
FmtSlice(params) == "[" \o Join(params, " ") \o "]"

\* parseCatalog: CATALOG, thirteen decimal digits.
parseCatalog(params, sheet) ==
    LET num == params[1]
        matched == Len(num) = 13 /\ AllDigits(num, 1, 13)
    IN  IF ~matched
        THEN Fail(sheet, FmtSlice(params) \o " is not valid catalog number")
        ELSE Ok([sheet EXCEPT !.Catalog = num])

\* parseCdTextFile: CDTEXTFILE.
parseCdTextFile(params, sheet) == Ok([sheet EXCEPT !.CdTextFile = params[1]])

\* parseFile: FILE name type.
parseFile(params, sheet) ==
    IF params[2] \notin DOMAIN fileTypes
    THEN Fail(sheet, "unknown file type: " \o params[2])
    ELSE Ok([sheet EXCEPT !.Files = Append(@, NewFile(params[1], fileTypes[params[2]]))])

\* The loop of parseFlags over the parameters from position i: each known
\* flag is appended before the next is looked at.
RECURSIVE appendFlags(_, _, _, _)
appendFlags(params, i, sheet, t) ==
    IF i > Len(params) THEN Ok(sheet)
    ELSE IF params[i] \notin DOMAIN trackFlags
    THEN Fail(sheet, "unknown track flag: " \o params[i])
    ELSE appendFlags(params, i + 1,
             SetTrack(sheet, t, [TrackAt(sheet, t) EXCEPT
                                    !.Flags = Append(@, trackFlags[params[i]])]), t)

\* A parseFlags that does nothing, and reports nothing, without a track.
parseFlagsLenient(params, sheet) ==
    IF getCurrentTrack(sheet) = 0
    THEN Ok(sheet)
    ELSE appendFlags(params, 1, sheet, getCurrentTrack(sheet))

\* parseFlags: FLAGS flag ...
parseFlags(params, sheet) ==
    LET track == getCurrentTrack(sheet)
    IN  IF track = 0
        THEN Fail(sheet, "TRACK command should appears before FLAGS command")
        ELSE appendFlags(params, 1, sheet, track)

\* A check that lets the first index of a track take the number 2 as well.
firstIndexNumberUpToTwo(number) == ~(number > 2)

\* The check of parseIndex on the number of the first index of a track.
firstIndexNumberOk(number) == ~(number >= 2)

\* The check of parseIndex on the number of a later index of a track.
indexNumberSequential(numberExpected, number) == ~(numberExpected # number)

\* parseIndex once the time tm and the number num are converted.
indexOf(tm, num, sheet) ==
    LET number == num.val
        track  == getCurrentTrack(sheet)
        tr     == TrackAt(sheet, track)
        numberExpected == tr.Indexes[Len(tr.Indexes)].Number + 1
        index  == [Number |-> number, Time |-> Time(tm.min, tm.sec, tm.frames)]
    IN  IF tm.err # NoError
        THEN Fail(sheet, "failed to parse index start time: " \o tm.err)
        ELSE IF num.err # NoError
        THEN Fail(sheet, "failed to parse index number: " \o num.err)
        ELSE IF number < 0 \/ number > 99
        THEN Fail(sheet, "index number should be in 0..99 interval")
        ELSE IF track = 0
        THEN Fail(sheet, "TRACK command should appears before INDEX command")
        ELSE IF Len(tr.Indexes) = 0 /\ ~firstIndexNumberOk(number)
        THEN Fail(sheet, "first track index should has 0 or 1 index number")
        ELSE IF Len(tr.Indexes) # 0 /\ ~indexNumberSequential(numberExpected, number)
        THEN Fail(sheet, "expected " \o Itoa(numberExpected) \o " index number but "
                         \o Itoa(number) \o " recieved")
        ELSE Ok(SetTrack(sheet, track, [tr EXCEPT !.Indexes = Append(@, index)]))

\* parseIndex: INDEX number mm:ss:ff.
parseIndex(params, sheet) == indexOf(parseTime(params[2]), Atoi(params[1]), sheet)

\* parseIsrc: ISRC code.
parseIsrc(params, sheet) ==
    LET isrc  == params[1]
        track == getCurrentTrack(sheet)
        tr    == TrackAt(sheet, track)
        matched == /\ Len(isrc) = 12
                   /\ AllIsrcPrefix(isrc, 1, 5)
                   /\ AllDigits(isrc, 6, 12)
    IN  IF track = 0
        THEN Fail(sheet, "TRACK command should appears before ISRC command")
        ELSE IF Len(tr.Indexes) # 0
        THEN Fail(sheet, "ISRC command must be specified before INDEX command")
        ELSE IF ~matched
        THEN Fail(sheet, isrc \o " is not valid ISRC number")
        ELSE Ok(SetTrack(sheet, track, [tr EXCEPT !.Isrc = isrc]))

\* parsePerformer: PERFORMER name, for the disc or for the current track.
parsePerformer(params, sheet) ==
    LET performer == stringTruncate(params[1], 80)
        track     == getCurrentTrack(sheet)
    IN  IF track = 0
        THEN Ok([sheet EXCEPT !.Performer = performer])
        ELSE Ok(SetTrack(sheet, track, [TrackAt(sheet, track) EXCEPT !.Performer = performer]))

\* parsePostgap once the time tm is converted, for the current track.
postgapOf(tm, track, sheet) ==
    IF track = 0
    THEN Fail(sheet, "POSTGAP command must appear after a TRACK command")
    ELSE IF tm.err # NoError
    THEN Fail(sheet, "failed to parse postgap time: " \o tm.err)
    ELSE Ok(SetTrack(sheet, track,
               [TrackAt(sheet, track) EXCEPT !.Postgap = Time(tm.min, tm.sec, tm.frames)]))

\* parsePostgap: POSTGAP mm:ss:ff.
parsePostgap(params, sheet) == postgapOf(parseTime(params[1]), getCurrentTrack(sheet), sheet)

\* A parsePregap that does not look at the indexes of the track.
pregapOfAnyTrack(tm, track, sheet) ==
    IF track = 0
    THEN Fail(sheet, "PREGAP command must appear after a TRACK command")
    ELSE IF tm.err # NoError
    THEN Fail(sheet, "failed to parse pregap time: " \o tm.err)
    ELSE Ok(SetTrack(sheet, track,
               [TrackAt(sheet, track) EXCEPT !.Pregap = Time(tm.min, tm.sec, tm.frames)]))

\* parsePregap once the time tm is converted, for the current track.
pregapOf(tm, track, sheet) ==
    IF track = 0
    THEN Fail(sheet, "PREGAP command must appear after a TRACK command")
    ELSE IF Len(TrackAt(sheet, track).Indexes) # 0
    THEN Fail(sheet, "PREGAP command must appear before any INDEX command")
    ELSE IF tm.err # NoError
    THEN Fail(sheet, "failed to parse pregap time: " \o tm.err)
    ELSE Ok(SetTrack(sheet, track,
               [TrackAt(sheet, track) EXCEPT !.Pregap = Time(tm.min, tm.sec, tm.frames)]))

\* parsePregap: PREGAP mm:ss:ff.
parsePregap(params, sheet) == pregapOf(parseTime(params[1]), getCurrentTrack(sheet), sheet)

\* parseRem: REM word ...
parseRem(params, sheet) == Ok([sheet EXCEPT !.Comments = Append(@, Join(params, " "))])

\* parseSongWriter: SONGWRITER name, for the disc or for the current track.
parseSongWriter(params, sheet) ==
    LET songwriter == stringTruncate(params[1], 80)
        track      == getCurrentTrack(sheet)
    IN  IF track = 0
        THEN Ok([sheet EXCEPT !.Songwriter = songwriter])
        ELSE Ok(SetTrack(sheet, track, [TrackAt(sheet, track) EXCEPT !.Songwriter = songwriter]))

\* A parseTitle that writes the title of the disc whatever the track.
parseTitleOfDisc(params, sheet) == Ok([sheet EXCEPT !.Title = stringTruncate(params[1], 80)])

\* parseTitle: TITLE name, for the disc or for the current track.
parseTitle(params, sheet) ==
    LET title == stringTruncate(params[1], 80)
        track == getCurrentTrack(sheet)
    IN  IF track = 0
        THEN Ok([sheet EXCEPT !.Title = title])
        ELSE Ok(SetTrack(sheet, track, [TrackAt(sheet, track) EXCEPT !.Title = title]))

\* A check that lets a later track take any larger number.
trackNumberAscending(previous, number) == previous < number

\* The check of parseTrack on the track number after strconv.Atoi.
trackNumberInRange(number) == number >= 1

\* The check of parseTrack on the number of a track that is not the first
\* of its file.
trackNumberSequential(previous, number) == previous = number - 1

\* parseTrack once the number num is converted.
trackOf(num, dataTypeStr, sheet) ==
    LET fLen   == Len(sheet.Files)
        number == num.val
        file   == sheet.Files[fLen]
        tLen   == Len(file.Tracks)
        track  == NewTrack(number, dataTypes[dataTypeStr])
    IN  IF fLen = 0
        THEN Fail(sheet, "unexpected TRACK command, FILE command expected first")
        ELSE IF num.err # NoError
        THEN Fail(sheet, "failed to parse track number parameter: " \o num.err)
        ELSE IF ~trackNumberInRange(number)
        THEN Fail(sheet, "failed to parse track number parameter. value should be in 1..99 range")
        ELSE IF dataTypeStr \notin DOMAIN dataTypes
        THEN Fail(sheet, "unknown track datatype: " \o dataTypeStr)
        ELSE IF tLen > 0 /\ ~trackNumberSequential(file.Tracks[tLen].Number, number)
        THEN Fail(sheet, "expected track number " \o Itoa(number - 1) \o ", but "
                         \o Itoa(number) \o " recieved")
        ELSE Ok([sheet EXCEPT !.Files[fLen].Tracks = Append(@, track)])

\* parseTrack: TRACK number datatype.
parseTrack(params, sheet) == trackOf(Atoi(params[1]), params[2], sheet)

(***************************************************************************)
(* The command table and the driver Parse.                                 *)
(***************************************************************************)

\* parsersMap: the parameter count of each command, -1 for any number.
parsersMap ==
    ("CATALOG" :> 1) @@ ("CDTEXTFILE" :> 1) @@ ("FILE" :> 2) @@ ("FLAGS" :> -1)
    @@ ("INDEX" :> 2) @@ ("ISRC" :> 1) @@ ("PERFORMER" :> 1) @@ ("POSTGAP" :> 1)
    @@ ("PREGAP" :> 1) @@ ("REM" :> -1) @@ ("SONGWRITER" :> 1) @@ ("TITLE" :> 1)
    @@ ("TRACK" :> 2)

\* The parser function parsersMap gives for cmd, applied.
runParser(cmd, params, sheet) ==
    CASE cmd = "CATALOG"    -> parseCatalog(params, sheet)
      [] cmd = "CDTEXTFILE" -> parseCdTextFile(params, sheet)
      [] cmd = "FILE"       -> parseFile(params, sheet)
      [] cmd = "FLAGS"      -> parseFlags(params, sheet)
      [] cmd = "INDEX"      -> parseIndex(params, sheet)
      [] cmd = "ISRC"       -> parseIsrc(params, sheet)
      [] cmd = "PERFORMER"  -> parsePerformer(params, sheet)
      [] cmd = "POSTGAP"    -> parsePostgap(params, sheet)
      [] cmd = "PREGAP"     -> parsePregap(params, sheet)
      [] cmd = "REM"        -> parseRem(params, sheet)
      [] cmd = "SONGWRITER" -> parseSongWriter(params, sheet)
      [] cmd = "TITLE"      -> parseTitle(params, sheet)
      [] cmd = "TRACK"      -> parseTrack(params, sheet)

\* The removal of the non-spacing marks (category Mn) from a line: the
\* alphabet of the model has none.
removeMarks(s) == s

\* A line that is not trimmed before the test for an empty line.
cleanLineUntrimmed(buf) == removeMarks(buf)

\* The line Parse works on: buf without its marks and trimmed.
cleanLine(buf) == TrimSpace(removeMarks(buf))

\* The test of the loop of Parse for an empty line.
isEmptyLine(line) == Len(line) = 0

\* A test that only refuses too few parameters.
arityTooFew(paramsExpected, paramsReceived) ==
    paramsExpected # -1 /\ paramsReceived < paramsExpected

\* The test of Parse on the parameter count of a command.
arityMismatch(paramsExpected, paramsReceived) ==
    paramsExpected # -1 /\ paramsExpected # paramsReceived

\* The end of a pass of the loop of Parse: line n, command cmd, and what
\* its parser left and returned.
afterParser(n, cmd, res) ==
    IF res.err # NoError
    THEN [lineNumber |-> n, sheet |-> res.sheet,
          err |-> "line " \o Itoa(n) \o ": failed to parse " \o cmd
                  \o " command. " \o res.err]
    ELSE [lineNumber |-> n, sheet |-> res.sheet, err |-> NoError]

\* A pass of the loop of Parse from the tokens tok of line n on.
dispatch(n, tok, sheet) ==
    IF tok.err # NoError
    THEN [lineNumber |-> n, sheet |-> sheet,
          err |-> "line " \o Itoa(n) \o ": " \o tok.err]
    ELSE IF tok.cmd \notin DOMAIN parsersMap
    THEN [lineNumber |-> n, sheet |-> sheet,
          err |-> "line " \o Itoa(n) \o ": unknown command '" \o tok.cmd \o "'"]
    ELSE IF arityMismatch(parsersMap[tok.cmd], Len(tok.params))
    THEN [lineNumber |-> n, sheet |-> sheet,
          err |-> "line " \o Itoa(n) \o ": command " \o tok.cmd \o ": recieved "
                  \o Itoa(Len(tok.params)) \o " parameters but "
                  \o Itoa(parsersMap[tok.cmd]) \o " expected"]
    ELSE afterParser(n, tok.cmd, runParser(tok.cmd, tok.params, sheet))

\* A pass of the loop of Parse over the cleaned line.
processCleanLine(line, lineNumber, sheet) ==
    IF isEmptyLine(line)
    THEN [lineNumber |-> lineNumber, sheet |-> sheet, err |-> NoError]
    ELSE dispatch(lineNumber + 1, parseCommand(line), sheet)

\* One pass of the loop of Parse over the line buf: the line counter and
\* the sheet after it, and the error Parse returns ("<nil>" to go on).
processLine(buf, lineNumber, sheet) == processCleanLine(cleanLine(buf), lineNumber, sheet)

\* An end position that never looks at the pregap of the next track.
endPositionFromIndex(f, ti) ==
    IF Len(f.Tracks) > ti THEN Seconds(StartTime(f.Tracks[ti + 1])) ELSE f.Duration

\* The end position of track ti of file f, whose duration is set.
endPosition(f, ti) ==
    IF Len(f.Tracks) > ti
    THEN LET nt == f.Tracks[ti + 1]
         IN  IF Seconds(nt.Pregap) = 0 THEN Seconds(StartTime(nt)) ELSE Seconds(nt.Pregap)
    ELSE f.Duration

\* The duration Parse gives file fi (1-based) of the sheet.
fileDuration(f, fi, durations) ==
    IF Len(durations) > fi - 1 THEN durations[fi] ELSE f.Duration

\* The pass of Parse over the tracks of file f, whose duration is set.
resolveTracks(f) ==
    [f EXCEPT !.Tracks =
        [ti \in 1..Len(f.Tracks) |->
            [f.Tracks[ti] EXCEPT
                !.StartPosition = Seconds(StartTime(f.Tracks[ti])),
                !.EndPosition = endPosition(f, ti)]]]

\* The pass of Parse over the files after the last line.
resolvePositions(sheet, durations) ==
    [sheet EXCEPT !.Files =
        [fi \in 1..Len(sheet.Files) |->
            resolveTracks([sheet.Files[fi] EXCEPT
                              !.Duration = fileDuration(sheet.Files[fi], fi, durations)])]]

(***************************************************************************)
(* The state of a call of Parse.                                           *)
(***************************************************************************)
VARIABLES
    durations,   \* the variadic argument of Parse, in 1/75 s
    read,        \* the lines rd.ReadLine has returned so far
    lineNumber,  \* the local lineNumber
    sheet,       \* the Sheet that sheet points to while the lines are read
    pc,          \* "reading" in the loop, "returned" after a return
    retSheet,    \* the returned pointer: <<>> for nil, else <<the sheet>>
    retErr       \* the returned error, "<nil>" for nil

vars == <<durations, read, lineNumber, sheet, pc, retSheet, retErr>>

\* The most lines the reader delivers, for each set of lines below.
MaxRead == 4

MaxReadTracks == 5

MaxReadOrder == 6

MaxReadText == 4

MaxReadPositions == 5

\* The most durations the caller passes.
MaxDurations == 3

\* The durations a caller passes, counted from the first: 2400 s, 60 s, ...
DurationPool == <<2400 * framesPerSecond, 60 * framesPerSecond, 7 * framesPerSecond,
                  framesPerSecond, 2 * framesPerSecond>>

\* The error of a reader that fails.
ReadFailure == "read failed"

\* Parse starts: new(Sheet), lineNumber := 0.
InitWith(durs) ==
    /\ durations = durs
    /\ read = <<>>
    /\ lineNumber = 0
    /\ sheet = NewSheet
    /\ pc = "reading"
    /\ retSheet = <<>>
    /\ retErr = NoError

\* A return of the sheet built so far together with the error.
continueOrReturnSheet(r) ==
    /\ lineNumber' = r.lineNumber
    /\ sheet' = r.sheet
    /\ IF r.err # NoError
       THEN /\ pc' = "returned"
            /\ retSheet' = <<r.sheet>>
            /\ retErr' = r.err
       ELSE UNCHANGED <<pc, retSheet, retErr>>

\* The end of a pass of the loop: Parse goes on, or returns the error.
continueOrReturn(r) ==
    /\ lineNumber' = r.lineNumber
    /\ sheet' = r.sheet
    /\ IF r.err # NoError
       THEN /\ pc' = "returned"
            /\ retSheet' = <<>>
            /\ retErr' = r.err
       ELSE UNCHANGED <<pc, retSheet, retErr>>

\* rd.ReadLine returns the line buf and the body of the loop runs on it
\* (the reader delivers at most max lines).
ReadLine(buf, max) ==
    /\ pc = "reading"
    /\ Len(read) < max
    /\ read' = Append(read, buf)
    /\ continueOrReturn(processLine(buf, lineNumber, sheet))
    /\ UNCHANGED durations

\* rd.ReadLine returns an error other than io.EOF: Parse returns it.
ReadFails ==
    /\ pc = "reading"
    /\ pc' = "returned"
    /\ retSheet' = <<>>
    /\ retErr' = ReadFailure
    /\ UNCHANGED <<durations, read, lineNumber, sheet>>

\* rd.ReadLine returns io.EOF: the positions are computed and the sheet is
\* returned.
EndOfInput ==
    /\ pc = "reading"
    /\ sheet' = resolvePositions(sheet, durations)
    /\ pc' = "returned"
    /\ retSheet' = <<sheet'>>
    /\ retErr' = NoError
    /\ UNCHANGED <<durations, read, lineNumber>>

(***************************************************************************)
(* Specifications: a call of Parse on a reader that delivers lines drawn   *)
(* from a set of lines, one per step, then fails or reaches its end.       *)
(***************************************************************************)

\* Lines of every outcome of the loop: blank, untokenizable, unknown,
\* wrong parameter count, refused by the handler, accepted.
DispatchLines ==
    { "", " \t ", "REM", "REM a  b", "  FLAGS", "FLAGS DCP", "BOGUS x", "title a",
      "TITLE", "TITLE a b", "TITLE 'a b'", "TITLE a\"b", "TITLE a\\",
      "FILE a", "FILE a WAVE", "FILE a OGG", "TRACK 01 AUDIO", "TRACK 01",
      "CATALOG 1234567890123", "CATALOG 123", "CDTEXTFILE c.cdt", "INDEX 01",
      "PREGAP" }

\* Lines of the FILE and TRACK commands.
TrackLines ==
    { "FILE a WAVE", "FILE b MP3", "TRACK 01 AUDIO", "TRACK 02 AUDIO",
      "TRACK 03 CDG", "TRACK 05 AUDIO", "TRACK 06 MODE1/2048", "TRACK 99 AUDIO",
      "TRACK 100 AUDIO", "TRACK 00 AUDIO", "TRACK -1 AUDIO", "TRACK x AUDIO",
      "TRACK 01 VIDEO", "TRACK +1 AUDIO", "TRACK 9223372036854775808 AUDIO" }

\* Lines of the commands that need a current track.
OrderLines ==
    { "FILE a WAVE", "TRACK 01 AUDIO",
      "INDEX 00 00:00:00", "INDEX 01 00:00:00", "INDEX 02 00:10:00",
      "INDEX 03 00:10:00", "INDEX 100 00:00:00", "INDEX -1 00:00:00",
      "INDEX x 00:00:00", "INDEX 01 00:00",
      "ISRC ABCDE1234567", "ISRC abcde7654321", "ISRC ABC", "ISRC a b",
      "PREGAP 00:02:00", "PREGAP 00:60:00", "PREGAP 0\"1", "POSTGAP 00:02:00",
      "POSTGAP 0:0",
      "FLAGS", "FLAGS DCP", "FLAGS PRE XXX" }

\* Lines of the commands that write a disc-level or a track-level text.
TextLines ==
    { "FILE a WAVE", "TRACK 01 AUDIO", "TRACK 02 AUDIO",
      "PERFORMER p", "TITLE 'u v'", "TITLE t", "TITLE \"\"", "SONGWRITER s",
      "SONGWRITER w", "INDEX 01 00:00:00" }

\* Lines that lay tracks, gaps and indexes out over files.
PositionLines ==
    { "FILE a WAVE", "FILE b MP3", "TRACK 01 AUDIO", "TRACK 02 AUDIO",
      "INDEX 01 00:00:00", "INDEX 01 03:00:00", "INDEX 00 02:58:00",
      "PREGAP 00:02:00", "PREGAP 01:-60:00" }

\* The duration lists a caller passes: the first n of the pool.
DurationLists == { SubSeq(DurationPool, 1, n) : n \in 0..MaxDurations }

Init == InitWith(<<>>)

Next ==
    \/ \E buf \in DispatchLines : ReadLine(buf, MaxRead)
    \/ ReadFails
    \/ EndOfInput

Spec == Init /\ [][Next]_vars

NextTracks ==
    \/ \E buf \in TrackLines : ReadLine(buf, MaxReadTracks)
    \/ ReadFails
    \/ EndOfInput

SpecTracks == Init /\ [][NextTracks]_vars

NextOrder ==
    \/ \E buf \in OrderLines : ReadLine(buf, MaxReadOrder)
    \/ ReadFails
    \/ EndOfInput

SpecOrder == Init /\ [][NextOrder]_vars

NextText ==
    \/ \E buf \in TextLines : ReadLine(buf, MaxReadText)
    \/ ReadFails
    \/ EndOfInput

SpecText == Init /\ [][NextText]_vars

InitPositions == \E durs \in DurationLists : InitWith(durs)

NextPositions ==
    \/ \E buf \in PositionLines : ReadLine(buf, MaxReadPositions)
    \/ ReadFails
    \/ EndOfInput

SpecPositions == InitPositions /\ [][NextPositions]_vars

\* The characters the tokenizer tells apart: two ordinary letters, one of
\* them the n of an escape, the two white spaces of a line, the two
\* quotation characters and the backslash.
TokenChars == { "a", "n", " ", "\t", "'", "\"", "\\" }

\* The longest text drawn from these characters.
MaxTokenLen == 4

\* The texts of at most n of these characters.
RECURSIVE Words(_)
Words(n) ==
    IF n = 0 THEN { "" }
    ELSE Words(n - 1) \cup { w \o c : w \in Words(n - 1), c \in TokenChars }

\* The inputs of TestParseCommand.
TestParseCommandLines ==
    { "COMMAND",
      "COMMAND \t PARAM1   PARAM2\tPARAM3",
      "COMMAND 'PARAM1' \"PARAM2\" 'PAR\"AM3' 'P AR  AM 4'",
      "COMMAND 'P A R A M 1' \"PA RA M2\" PA\\\"RAM\\'3" }

\* One-line inputs for the tokenizer: every short text, alone and as the
\* parameters of a REM, an escaped tab, and the inputs of the test.
TokenLines ==
    Words(MaxTokenLen) \cup { "REM " \o w : w \in Words(MaxTokenLen) }
        \cup { "REM a\\tn", "REM 'a\\tn'" } \cup TestParseCommandLines

\* Parse on a reader that delivers one line.
NextTokens ==
    \/ read = <<>> /\ \E buf \in TokenLines : ReadLine(buf, MaxRead)
    \/ ReadFails
    \/ EndOfInput

SpecTokens == Init /\ [][NextTokens]_vars

\* Time parameters: three fields at and beyond their limits, signed and
\* not numeric, and texts of one, two and four fields.
TimeTexts ==
    { m \o ":" \o sec \o ":" \o f :
        m \in { "01", "-1", "x" },
        sec \in { "02", "59", "60", "-1", "" },
        f \in { "03", "74", "75", "+3", "0x" } }
    \cup { "11:22:33", "14:00:00", "010203", "01:02", "01:02:03:04", "01:02:03:",
           "99999999999999999999:02:03" }

\* Lines of the three commands that take a time, after a file and a track.
TimeLines ==
    { "FILE a WAVE", "TRACK 01 AUDIO" }
    \cup { c \o t : c \in { "INDEX 01 ", "PREGAP ", "POSTGAP " }, t \in TimeTexts }

\* The most lines the reader delivers under SpecTimes.
MaxReadTimes == 3

NextTimes ==
    \/ \E buf \in TimeLines : ReadLine(buf, MaxReadTimes)
    \/ ReadFails
    \/ EndOfInput

SpecTimes == Init /\ [][NextTimes]_vars

\* ISRC lines: codes of the pattern, codes too short and too long, codes
\* with a character between Z and a in code order, with a letter among the
\* digits, with a hyphen and with a blank; after a file, a track, an index.
IsrcLines ==
    { "FILE a WAVE", "TRACK 01 AUDIO", "INDEX 01 00:00:00",
      "ISRC ABCDE1234567", "ISRC ab0yz7654321", "ISRC 012340000000",
      "ISRC ABCDE123456", "ISRC ABCDE12345678", "ISRC ABCDE12345A7",
      "ISRC AB_DE1234567", "ISRC AB^DE1234567", "ISRC [\\\\]AB1234567",
      "ISRC AB-DE1234567", "ISRC 'AB DE1234567'", "ISRC ''" }

\* The most lines the reader delivers under SpecIsrc.
MaxReadIsrc == 4

NextIsrc ==
    \/ \E buf \in IsrcLines : ReadLine(buf, MaxReadIsrc)
    \/ ReadFails
    \/ EndOfInput

SpecIsrc == Init /\ [][NextIsrc]_vars

\* A text of n characters: the digits 1234567890 over and over.
RECURSIVE Ruler(_)
Ruler(n) == IF n = 0 THEN "" ELSE Ruler(n - 1) \o Char("1234567890", ((n - 1) % 10) + 1)

\* Lines of the three text commands with a text of 80, of 81 and of 90
\* characters, for the disc and, after a file and a track, for the track.
TruncateLines ==
    { "FILE a WAVE", "TRACK 01 AUDIO" }
    \cup { c \o " " \o Ruler(n) : c \in { "TITLE", "PERFORMER", "SONGWRITER" },
                                 n \in { 80, 81, 90 } }

\* The most lines the reader delivers under SpecTruncate.
MaxReadTruncate == 3

NextTruncate ==
    \/ \E buf \in TruncateLines : ReadLine(buf, MaxReadTruncate)
    \/ ReadFails
    \/ EndOfInput

SpecTruncate == Init /\ [][NextTruncate]_vars

\* Lines of every command that reads or writes the current file or the
\* current track, for sheets of several files and tracks.
FileLines ==
    { "FILE a WAVE", "FILE b MP3", "TRACK 01 AUDIO", "TRACK 02 AUDIO",
      "FLAGS DCP PRE", "INDEX 01 00:00:00", "ISRC ABCDE1234567",
      "POSTGAP 00:02:00", "PREGAP 00:02:00",
      "PERFORMER p", "TITLE t", "SONGWRITER s", "REM c d" }

\* The most lines the reader delivers under SpecFiles.
MaxReadFiles == 4

NextFiles ==
    \/ \E buf \in FileLines : ReadLine(buf, MaxReadFiles)
    \/ ReadFails
    \/ EndOfInput

SpecFiles == Init /\ [][NextFiles]_vars

(***************************************************************************)
(* Properties.                                                             *)
(***************************************************************************)

\* The tracks of the sheet, as pairs <<file, track>> of positions.
TrackPositions(sh) ==
    UNION { { <<fi, ti>> : ti \in 1..Len(sh.Files[fi].Tracks) } : fi \in 1..Len(sh.Files) }

\* The text s holds the text sub.
Contains(s, sub) ==
    \E i \in 1..(Len(s) - Len(sub) + 1) : SubSeq(s, i, i + Len(sub) - 1) = sub

\* The last line the reader delivered.
LastLine == read[Len(read)]

\* The command name of a line, as the tokenizer gives it.
CommandOf(buf) == parseCommand(cleanLine(buf)).cmd

\* The tokens of a line, as the tokenizer gives them.
TokensOf(buf) == parseCommand(cleanLine(buf))

\* A step in which the reader delivers one more line.
ReadsLine == Len(read') = Len(read) + 1

\* The line delivered in such a step.
LineRead == read'[Len(read')]

\* Parse has returned an error and no sheet.
Failed == pc = "returned" /\ retErr # NoError /\ retSheet = <<>>

\* The track numbers of every file of sh are contiguous from one >= 1.
ContiguousTracks(sh) ==
    \A p \in TrackPositions(sh) :
        LET tracks == sh.Files[p[1]].Tracks
        IN  /\ tracks[p[2]].Number >= 1
            /\ (p[2] > 1 => tracks[p[2]].Number = tracks[p[2] - 1].Number + 1)

\* C1: the track numbers of every file are exactly 1, 2, ..., N in order.
\* The first TRACK of a file is accepted only with number 1 and every later
\* TRACK only with the number of the track before it plus 1; a TRACK with
\* any other number fails and the sheet is as it was.
C1_TrackNumbersFromOne ==
    [][ /\ \A p \in TrackPositions(sheet') :
              sheet'.Files[p[1]].Tracks[p[2]].Number = p[2]
        /\ (/\ ReadsLine
            /\ TokensOf(LineRead).err = NoError
            /\ TokensOf(LineRead).cmd = "TRACK"
            /\ Len(TokensOf(LineRead).params) = 2
            /\ Len(sheet.Files) > 0
            /\ LET tracks == sheet.Files[Len(sheet.Files)].Tracks
                   num    == Atoi(TokensOf(LineRead).params[1])
               IN  \/ num.err # NoError
                   \/ Len(tracks) = 0 /\ num.val # 1
                   \/ Len(tracks) > 0 /\ num.val # tracks[Len(tracks)].Number + 1)
           => Failed' /\ sheet' = sheet ]_vars

\* What parseTrack keeps of it: the track numbers of every file are
\* contiguous and ascending from a first number that is 1 or more; a TRACK
\* whose number is no integer, is below 1, or is not the number of the
\* track before it plus 1 fails and the sheet is as it was.
C1_TrackNumbersContiguous ==
    [][ /\ ContiguousTracks(sheet')
        /\ (/\ ReadsLine
            /\ TokensOf(LineRead).err = NoError
            /\ TokensOf(LineRead).cmd = "TRACK"
            /\ Len(TokensOf(LineRead).params) = 2
            /\ Len(sheet.Files) > 0
            /\ LET tracks == sheet.Files[Len(sheet.Files)].Tracks
                   num    == Atoi(TokensOf(LineRead).params[1])
               IN  \/ num.err # NoError
                   \/ num.val < 1
                   \/ Len(tracks) > 0 /\ num.val # tracks[Len(tracks)].Number + 1)
           => Failed' /\ sheet' = sheet ]_vars

\* A file whose tracks are numbered 5 and 6, and a TRACK refused for its
\* number after them.
C1_FirstTrackFive ==
    /\ pc = "returned"
    /\ retErr # NoError
    /\ read # <<>>
    /\ LastLine = "TRACK 05 AUDIO"
    /\ Len(sheet.Files) = 1
    /\ Len(sheet.Files[1].Tracks) = 2
    /\ sheet.Files[1].Tracks[1].Number = 5
    /\ sheet.Files[1].Tracks[2].Number = 6

\* C7: every track stored in the sheet has a number in 1..99.
C7_TrackNumbersInRange ==
    \A p \in TrackPositions(sheet) : sheet.Files[p[1]].Tracks[p[2]].Number \in 1..99

\* The index numbers of every track of sh are contiguous from 0 or 1.
ContiguousIndexes(sh) ==
    \A p \in TrackPositions(sh) :
        LET indexes == sh.Files[p[1]].Tracks[p[2]].Indexes
        IN  \A i \in 1..Len(indexes) :
                IF i = 1 THEN indexes[i].Number \in {0, 1}
                ELSE indexes[i].Number = indexes[i - 1].Number + 1

\* C2: the index numbers of every track are contiguous and ascending from
\* 0 or 1: an INDEX whose number is not 0 or 1 on a track with no index,
\* or not the last index number plus 1 on a track with indexes, fails, and
\* a well-formed INDEX 0..99 out of sequence fails with the error
\* "expected <last + 1> index number but <number> recieved".
C2_IndexNumbersContiguous ==
    [][ /\ ContiguousIndexes(sheet')
        /\ (/\ ReadsLine
            /\ TokensOf(LineRead).err = NoError
            /\ TokensOf(LineRead).cmd = "INDEX"
            /\ Len(TokensOf(LineRead).params) = 2
            /\ getCurrentTrack(sheet) # 0)
           => LET indexes == TrackAt(sheet, getCurrentTrack(sheet)).Indexes
                  num     == Atoi(TokensOf(LineRead).params[1])
                  last    == indexes[Len(indexes)].Number
                  wrong   == \/ num.err # NoError
                             \/ Len(indexes) = 0 /\ num.val \notin {0, 1}
                             \/ Len(indexes) > 0 /\ num.val # last + 1
              IN  /\ wrong => Failed' /\ sheet' = sheet
                  /\ (/\ num.err = NoError
                      /\ num.val \in 0..99
                      /\ parseTime(TokensOf(LineRead).params[2]).err = NoError
                      /\ Len(indexes) > 0
                      /\ num.val # last + 1)
                     => retErr' = "line " \o Itoa(lineNumber + 1)
                                  \o ": failed to parse INDEX command. expected "
                                  \o Itoa(last + 1) \o " index number but "
                                  \o Itoa(num.val) \o " recieved" ]_vars

\* INDEX 01 and then INDEX 03 on one track: 2 expected, 3 received.
C2_Witness ==
    /\ Failed
    /\ read # <<>>
    /\ LastLine = "INDEX 03 00:10:00"
    /\ getCurrentTrack(sheet) # 0
    /\ LET indexes == TrackAt(sheet, getCurrentTrack(sheet)).Indexes
       IN  Len(indexes) = 1 /\ indexes[1].Number = 1
    /\ Contains(retErr, "expected 2 index number but 3 recieved")

\* C3: FLAGS, INDEX, ISRC, POSTGAP and PREGAP fail when no TRACK has been
\* accepted before them, and TRACK fails when no FILE has been accepted
\* before it; Parse then returns an error and no sheet.
C3_CommandsNeedContext ==
    [][ ReadsLine =>
          /\ (/\ TokensOf(LineRead).cmd \in {"FLAGS", "INDEX", "ISRC", "POSTGAP", "PREGAP"}
              /\ TrackPositions(sheet) = {})
             => Failed'
          /\ (/\ TokensOf(LineRead).cmd = "TRACK"
              /\ Len(sheet.Files) = 0)
             => Failed' ]_vars

\* A FLAGS without parameters refused after a FILE and no TRACK.
C3_Witness ==
    /\ Failed
    /\ read # <<>>
    /\ LastLine = "FLAGS"
    /\ Len(sheet.Files) = 1
    /\ TrackPositions(sheet) = {}
    /\ Contains(retErr, "TRACK command should appears before FLAGS command")

\* C4: an ISRC or PREGAP command (a line that tokenizes to that command)
\* processed when the current track has an index fails with an error that
\* names the command, and no step changes the ISRC or the pregap of a
\* track that has an index.
C4_IsrcPregapBeforeIndex ==
    [][ /\ (/\ ReadsLine
            /\ TokensOf(LineRead).err = NoError
            /\ TokensOf(LineRead).cmd \in {"ISRC", "PREGAP"}
            /\ getCurrentTrack(sheet) # 0
            /\ Len(TrackAt(sheet, getCurrentTrack(sheet)).Indexes) > 0)
           => Failed' /\ Contains(retErr', TokensOf(LineRead).cmd)
        /\ \A p \in TrackPositions(sheet) :
              Len(sheet.Files[p[1]].Tracks[p[2]].Indexes) > 0
              => /\ sheet'.Files[p[1]].Tracks[p[2]].Isrc = sheet.Files[p[1]].Tracks[p[2]].Isrc
                 /\ sheet'.Files[p[1]].Tracks[p[2]].Pregap
                        = sheet.Files[p[1]].Tracks[p[2]].Pregap ]_vars

\* A second ISRC refused on a track whose ISRC was set before its index.
C4_Witness ==
    /\ Failed
    /\ read # <<>>
    /\ LastLine = "ISRC abcde7654321"
    /\ getCurrentTrack(sheet) # 0
    /\ Len(TrackAt(sheet, getCurrentTrack(sheet)).Indexes) > 0
    /\ TrackAt(sheet, getCurrentTrack(sheet)).Isrc = "ABCDE1234567"
    /\ Contains(retErr, "ISRC")

\* A line with a character that is not white space.
NonBlank(buf) == \E i \in 1..Len(buf) : ~IsSpace(Char(buf, i))

\* C5: Parse is all-or-nothing.  It returns a sheet and a nil error, every
\* line read having been accepted, or no sheet and an error; the first
\* line that fails (in the tokenizer, the dispatch or the handler) ends the
\* call, which reads and applies nothing after it.
C5_AllOrNothing ==
    [][ /\ pc = "returned" => UNCHANGED vars
        /\ pc' = "reading" => retSheet' = <<>> /\ retErr' = NoError
        /\ pc' = "returned" =>
              \/ /\ retSheet' = <<resolvePositions(sheet, durations)>>
                 /\ retErr' = NoError
                 /\ read' = read
              \/ /\ retSheet' = <<>>
                 /\ retErr' # NoError
        /\ ReadsLine =>
              LET tok == TokensOf(LineRead)
                  bad == \/ tok.err # NoError
                         \/ tok.cmd \notin DOMAIN parsersMap
                         \/ arityMismatch(parsersMap[tok.cmd], Len(tok.params))
                         \/ runParser(tok.cmd, tok.params, sheet).err # NoError
              IN  IF NonBlank(LineRead) /\ bad
                  THEN Failed'
                  ELSE pc' = "reading" ]_vars

\* An error returned, and no sheet, after a FILE and a TRACK were accepted.
C5_Witness ==
    /\ Failed
    /\ retErr # ReadFailure
    /\ Len(sheet.Files) = 1
    /\ Len(sheet.Files[1].Tracks) = 1

\* The number of such lines in a sequence of lines.
NonBlankCount(lines) == Cardinality({ i \in 1..Len(lines) : NonBlank(lines[i]) })

\* The text s starts with the text prefix.
StartsWith(s, prefix) == Len(s) >= Len(prefix) /\ SubSeq(s, 1, Len(prefix)) = prefix

\* C6: the line counter is the count of the non-blank lines read, blank
\* lines never incrementing it, and the error of a failing line carries
\* the count of the non-blank lines read up to and including that line.
C6_LineNumbersCountNonBlank ==
    /\ lineNumber = NonBlankCount(read)
    /\ (retErr # NoError /\ retErr # ReadFailure)
       => /\ NonBlank(LastLine)
          /\ StartsWith(retErr, "line " \o Itoa(NonBlankCount(read)) \o ": ")

\* A failure on the fourth line read, the second that is not blank.
C6_Witness ==
    /\ Failed
    /\ Len(read) = 4
    /\ NonBlankCount(read) = 2
    /\ StartsWith(retErr, "line 2: ")

\* The field of the sheet and of a track that a text command writes.
TextField(cmd) ==
    CASE cmd = "PERFORMER"  -> "Performer"
      [] cmd = "TITLE"      -> "Title"
      [] cmd = "SONGWRITER" -> "Songwriter"

\* C8: PERFORMER, TITLE and SONGWRITER (with their one parameter) never
\* fail and write one field: that of the current track when there is one,
\* else that of the sheet; nothing else changes.
C8_TextCommandsWriteOneField ==
    [][ (/\ ReadsLine
         /\ TokensOf(LineRead).err = NoError
         /\ TokensOf(LineRead).cmd \in {"PERFORMER", "TITLE", "SONGWRITER"}
         /\ Len(TokensOf(LineRead).params) = 1)
        => LET field == TextField(TokensOf(LineRead).cmd)
               value == TokensOf(LineRead).params[1]
               t     == getCurrentTrack(sheet)
           IN  /\ pc' = "reading"
               /\ retErr' = NoError
               /\ Len(value) <= 80
                  => IF t # 0
                     THEN sheet' = SetTrack(sheet, t, [TrackAt(sheet, t) EXCEPT ![field] = value])
                     ELSE sheet' = [sheet EXCEPT ![field] = value] ]_vars

\* A disc title written before the first TRACK, and a track title after it
\* that leaves the disc title alone.
C8_Witness ==
    /\ pc = "reading"
    /\ read # <<>>
    /\ LastLine = "TITLE 'u v'"
    /\ sheet.Title = "t"
    /\ getCurrentTrack(sheet) # 0
    /\ TrackAt(sheet, getCurrentTrack(sheet)).Title = "u v"

\* The time of the first index of a track in 1/75 s, 0 without an index.
FirstIndexSeconds(track) ==
    IF Len(track.Indexes) > 0 THEN Seconds(track.Indexes[1].Time) ELSE 0

\* C9: in the sheet Parse returns, the end position of a track followed by
\* another in its file is that track's pregap in seconds when that is not
\* zero, else that track's first-index time in seconds; the end position of
\* the last track of the i-th file is the i-th duration passed, 0 when
\* fewer were passed.
C9_EndPositions ==
    (pc = "returned" /\ retSheet # <<>>) =>
        \A p \in TrackPositions(retSheet[1]) :
            LET tracks == retSheet[1].Files[p[1]].Tracks
                next   == tracks[p[2] + 1]
            IN  tracks[p[2]].EndPosition =
                    IF p[2] < Len(tracks)
                    THEN IF Seconds(next.Pregap) # 0
                         THEN Seconds(next.Pregap)
                         ELSE FirstIndexSeconds(next)
                    ELSE IF Len(durations) >= p[1] THEN durations[p[1]] ELSE 0

\* Indexes at 00:00:00 and 03:00:00 and a duration of 2400 s: the tracks
\* end at 180 s and at 2400 s.
C9_Witness ==
    /\ pc = "returned"
    /\ retSheet # <<>>
    /\ Len(durations) >= 1
    /\ durations[1] = 2400 * framesPerSecond
    /\ Len(retSheet[1].Files) = 1
    /\ LET tracks == retSheet[1].Files[1].Tracks
       IN  /\ Len(tracks) = 2
           /\ Len(tracks[1].Indexes) = 1
           /\ Len(tracks[2].Indexes) = 1
           /\ tracks[1].Indexes[1].Time = Time(0, 0, 0)
           /\ tracks[2].Indexes[1].Time = Time(3, 0, 0)
           /\ tracks[1].EndPosition = 180 * framesPerSecond
           /\ tracks[2].EndPosition = 2400 * framesPerSecond

\* The parameter counts of the thirteen commands, -1 for any number.
CommandArity ==
    [CATALOG |-> 1, CDTEXTFILE |-> 1, FILE |-> 2, FLAGS |-> -1, INDEX |-> 2,
     ISRC |-> 1, PERFORMER |-> 1, POSTGAP |-> 1, PREGAP |-> 1, REM |-> -1,
     SONGWRITER |-> 1, TITLE |-> 1, TRACK |-> 2]

\* C10: the dispatch checks run before any handler.  A command name that
\* is not one of the thirteen gives the error "unknown command", a
\* parameter count other than the fixed count of the command gives an
\* error naming the command, the count received and the count expected,
\* and in both cases the sheet is as it was.  FLAGS and REM take any
\* number of parameters, zero too.
C10_DispatchChecks ==
    [][ (ReadsLine /\ NonBlank(LineRead) /\ TokensOf(LineRead).err = NoError)
        => LET cmd    == TokensOf(LineRead).cmd
               params == TokensOf(LineRead).params
               n      == Itoa(lineNumber + 1)
           IN  /\ Cardinality(DOMAIN parsersMap) = 13
               /\ cmd \notin DOMAIN CommandArity
                  => /\ Failed'
                     /\ retErr' = "line " \o n \o ": unknown command '" \o cmd \o "'"
                     /\ sheet' = sheet
               /\ (/\ cmd \in DOMAIN CommandArity
                   /\ CommandArity[cmd] # -1
                   /\ CommandArity[cmd] # Len(params))
                  => /\ Failed'
                     /\ retErr' = "line " \o n \o ": command " \o cmd \o ": recieved "
                                  \o Itoa(Len(params)) \o " parameters but "
                                  \o Itoa(CommandArity[cmd]) \o " expected"
                     /\ sheet' = sheet
               /\ (/\ cmd \in DOMAIN CommandArity
                   /\ \/ CommandArity[cmd] = -1
                      \/ CommandArity[cmd] = Len(params))
                  => /\ ~Contains(retErr', "parameters but")
                     /\ ~Contains(retErr', "unknown command")
               /\ cmd = "REM" => pc' = "reading" /\ retErr' = NoError
               /\ (cmd = "FLAGS" /\ params = <<>> /\ getCurrentTrack(sheet) # 0)
                  => pc' = "reading" /\ sheet' = sheet ]_vars

\* A TITLE with two parameters refused by the dispatch after a FILE and a
\* TRACK, and before it a REM and a FLAGS without parameters accepted.
C10_Witness ==
    /\ Failed
    /\ Len(read) = 4
    /\ LastLine = "TITLE a b"
    /\ retErr = "line 4: command TITLE: recieved 2 parameters but 1 expected"
    /\ sheet.Title = ""
    /\ getCurrentTrack(sheet) # 0
    /\ TrackAt(sheet, getCurrentTrack(sheet)).Title = ""

\* The text of a line after its command, trimmed: what the parameter loop
\* of parseCommand runs over ("" for a line that is only a command).
ParamText(buf) ==
    LET line == TrimSpace(buf)
        i    == IndexSpace(line)
    IN  IF i < 0 THEN "" ELSE TrimSpace(SubSeq(line, i + 1, Len(line)))

\* No character of s is c.
Without(s, c) == \A i \in 1..Len(s) : Char(s, i) # c

\* s has no quotation character and no backslash.
Plain(s) == Without(s, "'") /\ Without(s, "\"") /\ Without(s, "\\")

\* The white space of a line: the blank and the tab.
White(c) == c = " " \/ c = "\t"

\* The positions of s where a word, a run of non-white characters, starts.
WordStarts(s) ==
    { i \in 1..Len(s) : ~White(Char(s, i)) /\ (i = 1 \/ White(Char(s, i - 1))) }

\* The number of words of s.
WordCount(s) == Cardinality(WordStarts(s))

\* The n-th word of s.
NthWord(s, n) ==
    LET i == CHOOSE j \in WordStarts(s) :
                 Cardinality({ h \in WordStarts(s) : h < j }) = n - 1
        e == CHOOSE j \in i..Len(s) :
                 /\ \A h \in i..j : ~White(Char(s, h))
                 /\ j = Len(s) \/ White(Char(s, j + 1))
    IN  SubSeq(s, i, e)

\* s is made of letters only.
Letters(s) == \A i \in 1..Len(s) : Char(s, i) \in { "a", "n" }

\* In text, a quoted span opens at i, at the start of a parameter after
\* plain words, and closes at k; between them there is neither the same
\* quotation character nor a backslash.
SpanAt(text, i, k) ==
    /\ i < k
    /\ Char(text, i) \in { "'", "\"" }
    /\ Char(text, k) = Char(text, i)
    /\ i = 1 \/ White(Char(text, i - 1))
    /\ Plain(SubSeq(text, 1, i - 1))
    /\ Without(SubSeq(text, i + 1, k - 1), Char(text, i))
    /\ Without(SubSeq(text, i + 1, k - 1), "\\")

\* Such a span that closes before white space or at the end of the text.
QuotedSpan(text, i, k) ==
    /\ SpanAt(text, i, k)
    /\ k = Len(text) \/ White(Char(text, k + 1))

\* C11: the text between a quotation character at the start of a parameter
\* and the next occurrence of that character is one parameter, with its
\* white space and the other quotation character kept and without the two
\* delimiters.
C11_QuotedSpanIsOneParameter ==
    [][ ReadsLine =>
          LET text == ParamText(LineRead)
              tok  == TokensOf(LineRead)
          IN  \A i, k \in 1..Len(text) :
                  (QuotedSpan(text, i, k) /\ tok.err = NoError)
                  => /\ Len(tok.params) > WordCount(SubSeq(text, 1, i - 1))
                     /\ tok.params[WordCount(SubSeq(text, 1, i - 1)) + 1]
                            = SubSeq(text, i + 1, k - 1) ]_vars

\* The character an escape sequence stands for, by its second character.
Literal(c) == IF c = "n" THEN "\n" ELSE IF c = "t" THEN "\t" ELSE c

\* The second characters of the five escape sequences.
Escapable == { "\"", "'", "\\", "n", "t" }

\* s read from the left is made of escape sequences and of characters
\* that are neither a backslash nor in stops.
RECURSIVE Escaped(_, _)
Escaped(s, stops) ==
    IF s = "" THEN TRUE
    ELSE IF Char(s, 1) = "\\"
    THEN /\ Len(s) >= 2
         /\ Char(s, 2) \in Escapable
         /\ Escaped(SubSeq(s, 3, Len(s)), stops)
    ELSE Char(s, 1) \notin stops /\ Escaped(SubSeq(s, 2, Len(s)), stops)

\* Such a text with every escape sequence replaced by its character.
RECURSIVE Resolve(_)
Resolve(s) ==
    IF s = "" THEN ""
    ELSE IF Char(s, 1) = "\\"
    THEN Literal(Char(s, 2)) \o Resolve(SubSeq(s, 3, Len(s)))
    ELSE Char(s, 1) \o Resolve(SubSeq(s, 2, Len(s)))

\* text is a quoted span from its first to its last character.
Quoted(text) ==
    /\ Len(text) >= 2
    /\ Char(text, 1) \in { "'", "\"" }
    /\ Char(text, Len(text)) = Char(text, 1)

\* What is between the first and the last character of text.
Inside(text) == SubSeq(text, 2, Len(text) - 1)

\* C12: in the parameters of a line, outside and inside a quoted span, a
\* backslash followed by one of " ' \ n t is replaced by the character the
\* pair stands for, and that character neither opens nor closes a span nor
\* splits the parameter.
C12_EscapesResolved ==
    [][ ReadsLine =>
          LET text == ParamText(LineRead)
              tok  == TokensOf(LineRead)
          IN  /\ (text # "" /\ Escaped(text, { "'", "\"", " ", "\t" }))
                 => tok.err = NoError /\ tok.params = <<Resolve(text)>>
              /\ (Quoted(text) /\ Escaped(Inside(text), { Char(text, 1) }))
                 => tok.err = NoError /\ tok.params = <<Resolve(Inside(text))>> ]_vars

\* An escaped quotation character in the middle of an unquoted parameter:
\* the comment of the REM is the one parameter a"n.
C12_Witness ==
    /\ pc = "reading"
    /\ read = <<"REM a\\\"n">>
    /\ sheet.Comments = <<"a\"n">>

\* C13: a quotation character outside a quoted span fails the tokenizer
\* with "unexpected quotation character" when the parameter in progress has
\* a character already, be it a letter or the text of a span just closed;
\* it opens a span when the parameter in progress is empty.
C13_QuoteOnlyOpensParameter ==
    [][ ReadsLine =>
          LET text == ParamText(LineRead)
              tok  == TokensOf(LineRead)
          IN  /\ \A i \in 2..Len(text) :
                    (/\ Char(text, i) \in { "'", "\"" }
                     /\ Plain(SubSeq(text, 1, i - 1))
                     /\ ~White(Char(text, i - 1)))
                    => /\ tok.err = "unexpected quotation character"
                       /\ Failed'
                       /\ retErr' = "line 1: unexpected quotation character"
              /\ \A i, k \in 1..Len(text) :
                    (SpanAt(text, i, k) /\ k < Len(text)
                       /\ Char(text, k + 1) \in { "'", "\"" }
                       /\ Plain(SubSeq(text, k + 2, Len(text))))
                    => IF k > i + 1
                       THEN tok.err = "unexpected quotation character"
                       ELSE tok.err = NoError
              /\ \A i \in 1..Len(text) :
                    QuotedSpan(text, i, Len(text)) => tok.err = NoError ]_vars

\* A quotation character after the letter a: Parse fails at line 1.
C13_Witness ==
    /\ Failed
    /\ read = <<"REM a'n">>
    /\ retErr = "line 1: unexpected quotation character"

\* Every backslash of s is followed by a character that makes no escape
\* sequence with it, and s has a backslash.
Unescapable(s) ==
    /\ ~Without(s, "\\")
    /\ \A i \in 1..Len(s) :
          Char(s, i) = "\\" => i < Len(s) /\ Char(s, i + 1) \notin Escapable

\* The words of s are the parameters ps, in their order.
WordsAre(s, ps) ==
    /\ Len(ps) = WordCount(s)
    /\ \A n \in 1..Len(ps) : ps[n] = NthWord(s, n)

\* C14: in the parameters of a line, a backslash that is the last character
\* fails the tokenizer with "unfinished escape sequence", outside and inside
\* a quoted span; a backslash before a character other than " ' \ n t is no
\* error: it stays in the parameter and the character after it is read as
\* it would be without the backslash.
C14_BackslashAtEndOrKept ==
    [][ ReadsLine =>
          LET text == ParamText(LineRead)
              tok  == TokensOf(LineRead)
              head == SubSeq(text, 1, Len(text) - 1)
          IN  /\ (/\ text # ""
                  /\ Char(text, Len(text)) = "\\"
                  /\ \/ Plain(head)
                     \/ /\ head # ""
                        /\ Char(head, 1) \in { "'", "\"" }
                        /\ Without(SubSeq(head, 2, Len(head)), Char(head, 1))
                        /\ Without(head, "\\"))
                 => /\ tok.err = "unfinished escape sequence"
                    /\ Failed'
                    /\ retErr' = "line 1: unfinished escape sequence"
              /\ (/\ Unescapable(text)
                  /\ Without(text, "'")
                  /\ Without(text, "\""))
                 => tok.err = NoError /\ WordsAre(text, tok.params)
              /\ (/\ Quoted(text)
                  /\ Unescapable(Inside(text))
                  /\ Without(Inside(text), Char(text, 1)))
                 => tok.err = NoError /\ tok.params = <<Inside(text)>> ]_vars

\* A backslash before the letter a: the comment of the REM keeps both.
C14_Witness ==
    /\ pc = "reading"
    /\ read = <<"REM a\\a">>
    /\ sheet.Comments = <<"a\\a">>

\* s is made of letters and white space only.
LettersAndWhite(s) == \A i \in 1..Len(s) : White(Char(s, i)) \/ Letters(Char(s, i))

\* The words of s after the first are the first parameters of ps.
LaterWordsAre(s, ps) ==
    /\ Len(ps) >= WordCount(s) - 1
    /\ \A n \in 1..(WordCount(s) - 1) : ps[n] = NthWord(s, n + 1)

\* C15: the command is the first run of non-white characters of the line,
\* whatever they are; a line that is only a command has no parameters;
\* parameters without quotation are the later words of the line in their
\* order, runs of blanks and tabs between them giving no empty parameter;
\* the parameter in progress at the end of the line is appended, as the
\* empty text after a span that closes as soon as it opens.
C15_CommandAndWords ==
    [][ (ReadsLine /\ WordCount(LineRead) > 0) =>
          LET line == LineRead
              tok  == TokensOf(LineRead)
              n    == Len(line)
          IN  /\ tok.cmd = NthWord(line, 1)
              /\ WordCount(line) = 1 => tok.params = <<>> /\ tok.err = NoError
              /\ (WordCount(line) > 1 /\ LettersAndWhite(line))
                 => /\ tok.err = NoError
                    /\ Len(tok.params) = WordCount(line) - 1
                    /\ LaterWordsAre(line, tok.params)
              /\ (/\ n >= 4
                  /\ SubSeq(line, n - 1, n) \in { "''", "\"\"" }
                  /\ White(Char(line, n - 2))
                  /\ LettersAndWhite(SubSeq(line, 1, n - 3))
                  /\ WordCount(SubSeq(line, 1, n - 3)) > 0)
                 => /\ tok.err = NoError
                    /\ Len(tok.params) = WordCount(SubSeq(line, 1, n - 3))
                    /\ LaterWordsAre(SubSeq(line, 1, n - 3), tok.params)
                    /\ tok.params[Len(tok.params)] = "" ]_vars

\* Two words after the command, a tab between them: the comment of the REM
\* is the two parameters joined.
C15_Witness ==
    /\ pc = "reading"
    /\ read = <<"REM a\tn">>
    /\ sheet.Comments = <<"a n">>

\* The decimal digits and their values.
DigitValue ==
    ("0" :> 0) @@ ("1" :> 1) @@ ("2" :> 2) @@ ("3" :> 3) @@ ("4" :> 4)
    @@ ("5" :> 5) @@ ("6" :> 6) @@ ("7" :> 7) @@ ("8" :> 8) @@ ("9" :> 9)

\* s without its sign, if it has one.
Unsigned(s) == IF Len(s) > 0 /\ Char(s, 1) \in { "+", "-" } THEN SubSeq(s, 2, Len(s)) ELSE s

\* s is the numeral of an integer: a sign or none, then decimal digits.
IntegerText(s) ==
    /\ Unsigned(s) # ""
    /\ \A i \in 1..Len(Unsigned(s)) : Char(Unsigned(s), i) \in DOMAIN DigitValue

\* The number a run of digits stands for.
RECURSIVE Decimal(_)
Decimal(s) ==
    IF s = "" THEN 0
    ELSE 10 * Decimal(SubSeq(s, 1, Len(s) - 1)) + DigitValue[Char(s, Len(s))]

\* The integer a numeral stands for.
FieldValue(s) == IF Char(s, 1) = "-" THEN 0 - Decimal(Unsigned(s)) ELSE Decimal(Unsigned(s))

\* The positions of the colons of s.
Colons(s) == { i \in 1..Len(s) : Char(s, i) = ":" }

\* The field of s after the colon at a and before the colon at b.
Field(s, a, b) == SubSeq(s, a + 1, b - 1)

\* The three fields mm, ss and ff are integers, the seconds at most 59 and
\* the frames at most 74.
WellFormedFields(mm, ss, ff) ==
    /\ IntegerText(mm)
    /\ IntegerText(ss)
    /\ IntegerText(ff)
    /\ FieldValue(ss) <= 59
    /\ FieldValue(ff) <= 74

\* The first and the last colon of s.
FirstColon(s) == CHOOSE i \in Colons(s) : \A j \in Colons(s) : i <= j

LastColon(s) == CHOOSE i \in Colons(s) : \A j \in Colons(s) : i >= j

\* s is mm:ss:ff with such fields.
WellFormedTime(s) ==
    /\ Cardinality(Colons(s)) = 2
    /\ WellFormedFields(Field(s, 0, FirstColon(s)),
                        Field(s, FirstColon(s), LastColon(s)),
                        Field(s, LastColon(s), Len(s) + 1))

\* The Time that mm:ss:ff stands for.
TimeOfText(s) ==
    [Min    |-> FieldValue(Field(s, 0, FirstColon(s))),
     Sec    |-> FieldValue(Field(s, FirstColon(s), LastColon(s))),
     Frames |-> FieldValue(Field(s, LastColon(s), Len(s) + 1))]

\* Every time stored in sh.
TimesOf(sh) ==
    UNION { LET track == sh.Files[p[1]].Tracks[p[2]]
            IN  { track.Pregap, track.Postgap }
                    \cup { track.Indexes[i].Time : i \in 1..Len(track.Indexes) }
            : p \in TrackPositions(sh) }

\* The time the command cmd has just stored in the current track of sh.
StoredTime(cmd, sh) ==
    LET track == TrackAt(sh, getCurrentTrack(sh))
    IN  IF cmd = "INDEX" THEN track.Indexes[Len(track.Indexes)].Time
        ELSE IF cmd = "PREGAP" THEN track.Pregap
        ELSE track.Postgap

\* A step that reads the command cmd with the time text: it fails and
\* leaves the sheet when the time is not well formed, and when it is
\* accepted the time is well formed and stored with its field values.
TimeStep(cmd, text) ==
    /\ ~WellFormedTime(text) => Failed' /\ sheet' = sheet
    /\ pc' = "reading"
       => /\ WellFormedTime(text)
          /\ StoredTime(cmd, sheet') = TimeOfText(text)

\* Such a step for the tokens of a line, when they are those of an INDEX, a
\* PREGAP or a POSTGAP with its number of parameters.
TimeStepOf(tok) ==
    (/\ tok.err = NoError
     /\ tok.cmd \in { "INDEX", "PREGAP", "POSTGAP" }
     /\ Len(tok.params) = CommandArity[tok.cmd])
    => TimeStep(tok.cmd, tok.params[Len(tok.params)])

\* C16: INDEX, PREGAP and POSTGAP are accepted only with a time mm:ss:ff of
\* three integer fields, seconds at most 59 and frames at most 74; with any
\* other time the command fails and the sheet is as it was.  Every time
\* stored in the sheet has seconds at most 59 and frames at most 74, and an
\* accepted time is stored with its three field values.
C16_TimesWellFormed ==
    [][ /\ \A t \in TimesOf(sheet') : t.Sec <= 59 /\ t.Frames <= 74
        /\ ReadsLine => TimeStepOf(TokensOf(LineRead)) ]_vars

\* The first input of TestParseTime as the time of an index.
C16_Witness ==
    /\ pc = "reading"
    /\ read = <<"FILE a WAVE", "TRACK 01 AUDIO", "INDEX 01 01:02:03">>
    /\ TrackAt(sheet, getCurrentTrack(sheet)).Indexes = <<[Number |-> 1, Time |-> Time(1, 2, 3)]>>

\* The alphanumeric characters: the digits and the letters of both cases.
Alphanumeric == "0123456789abcdefghijklmnopqrstuvwxyzABCDEFGHIJKLMNOPQRSTUVWXYZ"

\* The character c occurs in s.
OneOf(c, s) == \E i \in 1..Len(s) : Char(s, i) = c

\* An ISRC: five alphanumeric characters and then seven digits.
IsrcText(s) ==
    /\ Len(s) = 12
    /\ \A i \in 1..5 : OneOf(Char(s, i), Alphanumeric)
    /\ \A i \in 6..12 : Char(s, i) \in DOMAIN DigitValue

\* A step that reads ISRC isrc when the current track has no index: the
\* ISRC of the track is set when isrc is an ISRC, and only then; else Parse
\* fails and the ISRC is as it was.
IsrcStep(isrc) ==
    IF IsrcText(isrc)
    THEN pc' = "reading" /\ TrackAt(sheet', getCurrentTrack(sheet')).Isrc = isrc
    ELSE Failed' /\ sheet' = sheet

\* Such a step for the tokens of a line, when they are those of an ISRC
\* with one parameter.
IsrcStepOf(tok) ==
    (tok.err = NoError /\ tok.cmd = "ISRC" /\ Len(tok.params) = 1)
    => IsrcStep(tok.params[1])

\* C17: with a current track that has no index, ISRC sets the ISRC of the
\* track if and only if its parameter is 12 characters, five of 0-9, a-z,
\* A-Z and then seven digits; any other parameter fails the command and
\* leaves the ISRC.
C17_IsrcPattern ==
    [][ (/\ ReadsLine
         /\ getCurrentTrack(sheet) # 0
         /\ Len(TrackAt(sheet, getCurrentTrack(sheet)).Indexes) = 0)
        => IsrcStepOf(TokensOf(LineRead)) ]_vars

\* The titles, performers and songwriters stored in sh.
TextsOf(sh) ==
    { sh.Title, sh.Performer, sh.Songwriter }
    \cup UNION { LET track == sh.Files[p[1]].Tracks[p[2]]
                 IN  { track.Title, track.Performer, track.Songwriter }
                 : p \in TrackPositions(sh) }

\* v is text cut to 80 characters: text when it has at most 80, else its
\* first 80.
CutTo80(text, v) ==
    IF Len(text) <= 80
    THEN v = text
    ELSE Len(v) = 80 /\ \A i \in 1..80 : Char(v, i) = Char(text, i)

\* A step that reads the text command cmd with text: the field it writes,
\* of the current track if there is one and else of the sheet, is text cut
\* to 80 characters.
TextStep(cmd, text) ==
    /\ pc' = "reading"
    /\ IF getCurrentTrack(sheet) # 0
       THEN CutTo80(text, TrackAt(sheet', getCurrentTrack(sheet))[TextField(cmd)])
       ELSE CutTo80(text, sheet'[TextField(cmd)])

\* Such a step for the tokens of a line, when they are those of a text
\* command with one parameter.
TextStepOf(tok) ==
    (/\ tok.err = NoError
     /\ tok.cmd \in { "TITLE", "PERFORMER", "SONGWRITER" }
     /\ Len(tok.params) = 1)
    => TextStep(tok.cmd, tok.params[1])

\* C18: the text TITLE, PERFORMER and SONGWRITER store, for the disc or for
\* a track, is their parameter when it has at most 80 characters and its
\* first 80 characters when it has more; no stored title, performer or
\* songwriter is longer than 80 characters.
C18_TextsTruncated ==
    [][ /\ \A v \in TextsOf(sheet') : Len(v) <= 80
        /\ ReadsLine => TextStepOf(TokensOf(LineRead)) ]_vars

\* A TITLE of 90 characters for a track: its first 80 are stored.
C18_Witness ==
    /\ pc = "reading"
    /\ read = <<"FILE a WAVE", "TRACK 01 AUDIO", "TITLE " \o Ruler(90)>>
    /\ TrackAt(sheet, getCurrentTrack(sheet)).Title = Ruler(80)
    /\ sheet.Title = ""

\* The position in read of the last line of the command cmd, 0 for none.
LastOf(cmd) ==
    IF \E i \in 1..Len(read) : CommandOf(read[i]) = cmd
    THEN CHOOSE i \in 1..Len(read) :
             /\ CommandOf(read[i]) = cmd
             /\ \A j \in (i + 1)..Len(read) : CommandOf(read[j]) # cmd
    ELSE 0

\* A step that reads the tokens tok when no TRACK was accepted since the
\* last FILE: the five commands of a track fail, and a text command writes
\* the field of the disc and leaves every file as it was.
NoTrackStep(tok) ==
    /\ tok.cmd \in { "FLAGS", "INDEX", "ISRC", "POSTGAP", "PREGAP" } => Failed'
    /\ (tok.cmd \in { "PERFORMER", "TITLE", "SONGWRITER" } /\ Len(tok.params) = 1)
       => /\ pc' = "reading"
          /\ sheet'[TextField(tok.cmd)] = tok.params[1]
          /\ sheet'.Files = sheet.Files

\* A step that reads the tokens tok when a TRACK was accepted since the
\* last FILE: a text command writes the field of the last track of the last
\* file and leaves the field of the disc.
LastTrackStep(tok) ==
    (tok.cmd \in { "PERFORMER", "TITLE", "SONGWRITER" } /\ Len(tok.params) = 1)
    => LET tracks == sheet'.Files[Len(sheet'.Files)].Tracks
       IN  /\ pc' = "reading"
           /\ tracks[Len(tracks)][TextField(tok.cmd)] = tok.params[1]
           /\ sheet'[TextField(tok.cmd)] = sheet[TextField(tok.cmd)]

\* C19: the current track is the last track of the last file.  Once a FILE
\* is accepted, and until a TRACK is accepted after it, there is no current
\* track, whatever tracks the files before have: FLAGS, INDEX, ISRC, POSTGAP
\* and PREGAP fail, and PERFORMER, TITLE and SONGWRITER write the fields of
\* the disc; after that TRACK they write the fields of the new track.
C19_NoCurrentTrackAfterFile ==
    [][ ReadsLine =>
          IF LastOf("FILE") > LastOf("TRACK")
          THEN NoTrackStep(TokensOf(LineRead))
          ELSE LastOf("TRACK") > 0 => LastTrackStep(TokensOf(LineRead)) ]_vars

\* A TITLE after a second FILE: it is the title of the disc, and the track
\* of the first file has none.
C19_Witness ==
    /\ pc = "reading"
    /\ read = <<"FILE a WAVE", "TRACK 01 AUDIO", "FILE b MP3", "TITLE t">>
    /\ sheet.Title = "t"
    /\ sheet.Files[1].Tracks[1].Title = ""
    /\ sheet.Files[2].Tracks = <<>>

\* The sequence a is the head of the sequence b.
IsPrefix(a, b) == Len(a) <= Len(b) /\ SubSeq(b, 1, Len(a)) = a

\* The track u is the last track t after a command: its indexes and flags
\* appended to, its number and data type as they were.
TrackAppendedTo(t, u) ==
    /\ IsPrefix(t.Indexes, u.Indexes)
    /\ IsPrefix(t.Flags, u.Flags)
    /\ u.Number = t.Number
    /\ u.DataType = t.DataType

\* The file g is the last file f after a command: its tracks appended to,
\* all its tracks but the last as they were, and the last one too when a
\* track came after it.
FileAppendedTo(f, g) ==
    /\ g.Name = f.Name
    /\ g.Type = f.Type
    /\ Len(f.Tracks) <= Len(g.Tracks)
    /\ \A ti \in 1..(Len(f.Tracks) - 1) : g.Tracks[ti] = f.Tracks[ti]
    /\ Len(f.Tracks) > 0
       => /\ TrackAppendedTo(f.Tracks[Len(f.Tracks)], g.Tracks[Len(f.Tracks)])
          /\ Len(g.Tracks) > Len(f.Tracks)
             => g.Tracks[Len(f.Tracks)] = f.Tracks[Len(f.Tracks)]

\* The sheet new is the sheet old after a command: comments and files
\* appended to, all files but the last as they were, and the last one too
\* when a file came after it.
SheetAppendedTo(old, new) ==
    /\ IsPrefix(old.Comments, new.Comments)
    /\ Len(old.Files) <= Len(new.Files)
    /\ \A fi \in 1..(Len(old.Files) - 1) : new.Files[fi] = old.Files[fi]
    /\ Len(old.Files) > 0
       => /\ FileAppendedTo(old.Files[Len(old.Files)], new.Files[Len(old.Files)])
          /\ Len(new.Files) > Len(old.Files)
             => new.Files[Len(old.Files)] = old.Files[Len(old.Files)]

\* The numbers of tracks, of indexes and of flags of a sheet.
RECURSIVE SumOver(_, _)
SumOver(lens, n) == IF n = 0 THEN 0 ELSE lens[n] + SumOver(lens, n - 1)

NumTracks(sh) == SumOver([fi \in 1..Len(sh.Files) |-> Len(sh.Files[fi].Tracks)], Len(sh.Files))

NumIndexes(sh) ==
    SumOver([fi \in 1..Len(sh.Files) |->
                SumOver([ti \in 1..Len(sh.Files[fi].Tracks) |->
                            Len(sh.Files[fi].Tracks[ti].Indexes)],
                        Len(sh.Files[fi].Tracks))],
            Len(sh.Files))

NumFlags(sh) ==
    SumOver([fi \in 1..Len(sh.Files) |->
                SumOver([ti \in 1..Len(sh.Files[fi].Tracks) |->
                            Len(sh.Files[fi].Tracks[ti].Flags)],
                        Len(sh.Files[fi].Tracks))],
            Len(sh.Files))

\* What the accepted command cmd with n parameters appends to old to give
\* new: FILE a file, TRACK a track, INDEX an index, FLAGS its n flags, REM
\* a comment, and no command anything else.
Appended(cmd, n, old, new) ==
    /\ Len(new.Files) = Len(old.Files) + (IF cmd = "FILE" THEN 1 ELSE 0)
    /\ NumTracks(new) = NumTracks(old) + (IF cmd = "TRACK" THEN 1 ELSE 0)
    /\ NumIndexes(new) = NumIndexes(old) + (IF cmd = "INDEX" THEN 1 ELSE 0)
    /\ NumFlags(new) = NumFlags(old) + (IF cmd = "FLAGS" THEN n ELSE 0)
    /\ Len(new.Comments) = Len(old.Comments) + (IF cmd = "REM" THEN 1 ELSE 0)

\* Such a step for the tokens of a line.
AppendedBy(tok, old, new) == Appended(tok.cmd, Len(tok.params), old, new)

\* C20: while lines are read the sheet only grows at its end.  An accepted
\* command leaves the files, tracks, indexes, flags and comments there are
\* in their number and order and appends at most at the end: FILE a file,
\* TRACK a track of the last file, INDEX an index and FLAGS its flags of
\* the current track, REM a comment; no field of a file before the last or
\* of a track before the last track of the last file changes.
C20_AppendOnly ==
    [][ (ReadsLine /\ pc' = "reading" /\ NonBlank(LineRead))
        => /\ SheetAppendedTo(sheet, sheet')
           /\ AppendedBy(TokensOf(LineRead), sheet, sheet') ]_vars

\* An index for the second track of a file: the first track has none.
C20_Witness ==
    /\ pc = "reading"
    /\ read = <<"FILE a WAVE", "TRACK 01 AUDIO", "TRACK 02 AUDIO", "INDEX 01 00:00:00">>
    /\ Len(sheet.Files[1].Tracks) = 2
    /\ sheet.Files[1].Tracks[1].Indexes = <<>>
    /\ Len(sheet.Files[1].Tracks[2].Indexes) = 1

\* In text, a quoted span opens at i, at the start of a parameter after
\* plain words, and the text ends before the same quotation character
\* comes again; after i there is no backslash.
OpenSpan(text, i) ==
    /\ Char(text, i) \in { "'", "\"" }
    /\ i = 1 \/ White(Char(text, i - 1))
    /\ Plain(SubSeq(text, 1, i - 1))
    /\ Without(SubSeq(text, i + 1, Len(text)), Char(text, i))
    /\ Without(SubSeq(text, i + 1, Len(text)), "\\")

\* C21: the tokenizer fails when the line ends while a quoted span is open,
\* an opening quotation character without the same character later on the
\* line; a tokenization that succeeds ends outside quote mode.
C21_OpenSpanFails ==
    [][ ReadsLine =>
          \A i \in 1..Len(ParamText(LineRead)) :
              OpenSpan(ParamText(LineRead), i) => TokensOf(LineRead).err # NoError ]_vars

\* C22: every time an accepted INDEX, PREGAP or POSTGAP stores has minutes
\* of 0 or more, seconds from 0 to 59 and frames from 0 to 74, so that its
\* Seconds() is 0 or more.
C22_TimesNonNegative ==
    \A t \in TimesOf(sheet) :
        /\ t.Min >= 0
        /\ t.Sec >= 0 /\ t.Sec <= 59
        /\ t.Frames >= 0 /\ t.Frames <= 74
        /\ Seconds(t) >= 0

====
